---- MODULE Spec2Model ----
(***************************************************************************)
(* Model of script/execute.py: the module classifier (is_standard_lib,     *)
(* is_first_party, is_third_party), the import extractor (parse_imports)   *)
(* and the closure walk and bundling loop of gather_dependencies.          *)
(*                                                                         *)
(* A module name is the sequence of its dotted components, a path is the   *)
(* sequence of its components.  What the interpreter's import machinery    *)
(* answers for a name is the record Env[name]; a location on disk is a     *)
(* record of the facts the code tests on the path string.                  *)
(***************************************************************************)
EXTENDS Integers, Sequences, FiniteSets, TLC

\* ------------------------------------------------------------------ bounds
MaxImports == 2     \* import statements drawn per source file
MaxVisits == 2      \* the parse counter of a module saturates here
WalkFuel == 16      \* pops allowed to the reference walk RefWalk

\* ------------------------------------------------------- program constants
SRC_DIR == <<"src", "lambdas">>
HANDLER_FILE_NAME == <<"handler", ".py">>

\* ----------------------------------------------------------- module names
A == <<"a">>
B == <<"b">>
C == <<"c">>
JSON == <<"json">>
SYS == <<"sys">>
REQ == <<"req">>
REQSUB == <<"req", "sub">>
GHOST == <<"ghost">>
GHOSTSUB == <<"ghost", "sub">>
NS == <<"ns">>
BOTH == <<"both">>
ZIPPED == <<"zipped">>
NATIVE == <<"native">>
Names == {A, B, C, JSON, SYS, REQ, REQSUB, GHOST, GHOSTSUB, NS, BOTH, ZIPPED, NATIVE}

\* the entries os.listdir(SRC_DIR) returns, and which of them are directories
Entries == {"u1", "u2", "notes.txt"}
Units == {"u1", "u2"}

\* ------------------------------------------------------ locations on disk
NoPath == [none |-> TRUE, std |-> FALSE, cwd |-> FALSE, pkg |-> FALSE,
           venv |-> FALSE, zip |-> FALSE, ext |-> "py", egg |-> FALSE]
PathAt(std, cwd, pkg, venv) ==
    [none |-> FALSE, std |-> std, cwd |-> cwd, pkg |-> pkg,
     venv |-> venv, zip |-> FALSE, ext |-> "py", egg |-> FALSE]
InProject == PathAt(FALSE, TRUE, FALSE, FALSE)
InStdLib == PathAt(TRUE, FALSE, FALSE, FALSE)
InVenv == PathAt(FALSE, TRUE, TRUE, TRUE)
InVendored == PathAt(FALSE, TRUE, TRUE, FALSE)

Mod(builtin, specRaises, specFound, origin, importable, hasFile, file, hasPath, roots, frozen) ==
    [builtin |-> builtin, specRaises |-> specRaises, specFound |-> specFound,
     origin |-> origin, importable |-> importable, hasFile |-> hasFile,
     file |-> file, hasPath |-> hasPath, roots |-> roots, frozen |-> frozen]
SourceModule(p) == Mod(FALSE, FALSE, TRUE, p, TRUE, TRUE, p, FALSE, {}, FALSE)

Env ==
    [n \in Names |->
       CASE n \in {A, B, C} -> SourceModule(InProject)
         [] n = JSON -> SourceModule(InStdLib)
         [] n = SYS -> Mod(TRUE, FALSE, TRUE, NoPath, TRUE, FALSE, NoPath, FALSE, {}, FALSE)
         [] n \in {REQ, REQSUB} -> SourceModule(InVenv)
         [] n = GHOST -> Mod(FALSE, FALSE, FALSE, NoPath, FALSE, FALSE, NoPath, FALSE, {}, FALSE)
         [] n = GHOSTSUB -> Mod(FALSE, TRUE, FALSE, NoPath, FALSE, FALSE, NoPath, FALSE, {}, FALSE)
         [] n = NS -> Mod(FALSE, FALSE, TRUE, NoPath, TRUE, TRUE, NoPath, TRUE, {InProject}, FALSE)
         [] n = BOTH -> SourceModule(InVendored)
         [] n = ZIPPED -> SourceModule([InProject EXCEPT !.zip = TRUE])
         [] n = NATIVE -> SourceModule([InProject EXCEPT !.ext = "so"])]

\* -------------------------------------------------------------- classifier
Ret(b) == [ret |-> b, exc |-> "none"]
Raise(e) == [ret |-> FALSE, exc |-> e]

is_standard_lib(module_name) ==
    LET m == Env[module_name] IN
    IF m.builtin THEN Ret(TRUE)
    ELSE IF m.specRaises THEN Raise("ModuleNotFoundError")
    ELSE IF ~m.specFound THEN Ret(FALSE)
    ELSE IF m.origin.none THEN Ret(FALSE)
    ELSE Ret(m.origin.std)

is_third_party(module_name) ==
    LET m == Env[module_name] IN
    IF ~m.importable THEN Ret(FALSE)
    ELSE IF ~m.hasFile \/ m.file.none THEN Raise("AttributeError")
    ELSE Ret(m.file.pkg)

is_namespace_package(module_name) ==
    LET m == Env[module_name] IN
    IF ~m.importable THEN FALSE
    ELSE m.hasPath /\ ~m.hasFile

is_first_party(module_name) ==
    LET m == Env[module_name]
        module_file == IF m.hasFile THEN m.file ELSE NoPath
    IN
    IF ~m.importable THEN Ret(FALSE)
    ELSE IF module_file.none THEN Ret(FALSE)
    ELSE IF module_file.zip THEN Ret(module_file.cwd)
    ELSE IF module_file.ext \in {"pyd", "so"} THEN Ret(module_file.cwd)
    ELSE IF is_namespace_package(module_name) THEN Ret(\E path \in m.roots : path.cwd)
    ELSE IF m.frozen THEN Ret(FALSE)
    ELSE IF module_file.venv THEN Ret(FALSE)
    ELSE IF module_file.egg THEN Ret(FALSE)
    ELSE Ret(module_file.cwd)

\* ---------------------------------------------------------------- handlers
Handled(imp, req, exc) == [imp |-> imp, req |-> req, exc |-> exc]

_handle_import_from(module) ==
    IF module = <<>> THEN Handled({}, {}, "none")
    ELSE LET s == is_standard_lib(module) IN
         IF s.exc # "none" THEN Handled({}, {}, s.exc)
         ELSE IF s.ret THEN Handled({}, {}, "none")
         ELSE IF is_first_party(module).ret THEN Handled({module}, {}, "none")
         ELSE LET t == is_third_party(module) IN
              IF t.exc # "none" THEN Handled({}, {}, t.exc)
              ELSE IF t.ret THEN Handled({}, {module}, "none")
              ELSE Handled({}, {}, "none")

\* the elif chain of _handle_import written as three independent ifs
_handle_import_no_elif(alias_name) ==
    LET s == is_standard_lib(alias_name) IN
    IF s.exc # "none" THEN Handled({}, {}, s.exc)
    ELSE IF s.ret THEN Handled({}, {}, "none")
    ELSE LET t == is_third_party(alias_name) IN
         IF t.exc # "none" THEN Handled({}, {}, t.exc)
         ELSE Handled(IF is_first_party(alias_name).ret THEN {alias_name} ELSE {},
                      IF t.ret THEN {alias_name} ELSE {}, "none")

_handle_import(alias_name) ==
    LET s == is_standard_lib(alias_name) IN
    IF s.exc # "none" THEN Handled({}, {}, s.exc)
    ELSE IF s.ret THEN Handled({}, {}, "none")
    ELSE IF is_first_party(alias_name).ret THEN Handled({alias_name}, {}, "none")
    ELSE LET t == is_third_party(alias_name) IN
         IF t.exc # "none" THEN Handled({}, {}, t.exc)
         ELSE IF t.ret THEN Handled({}, {alias_name}, "none")
         ELSE Handled({}, {}, "none")

\* ------------------------------------------------------------ source files
\* an ast.Import node carries its aliases, an ast.ImportFrom node its module
\* (<<>> when the statement names none, as in "from . import x") and level
Imp(aliases) == [form |-> "import", level |-> 0, module |-> <<>>, names |-> aliases]
From(level, module) == [form |-> "from", level |-> level, module |-> module, names |-> {}]

ModulePath(m) == <<"src">> \o m \o <<".py">>
HandlerPath(lambda_dir) == SRC_DIR \o <<lambda_dir>> \o HANDLER_FILE_NAME
IsDir(entry) == entry \in Units
Paths == {HandlerPath(u) : u \in Units} \cup {ModulePath(n) : n \in Names}

File(status, stmts) == [status |-> status, stmts |-> stmts]
Absent == File("absent", {})
Unparseable == File("syntaxerr", {})

VARIABLES tree, pending, cur, pc, imports, requirements, queue, dist, err,
          visits, classified
vars == <<tree, pending, cur, pc, imports, requirements, queue, dist, err,
          visits, classified>>

\* the names a file's module-scope statements hand to the two handlers
Calls(stmts) ==
    {<<"from", s.module>> : s \in {x \in stmts : x.form = "from"}}
    \cup UNION {{<<"import", n>> : n \in s.names} : s \in {x \in stmts : x.form = "import"}}

HandleCall(c) ==
    IF c[1] = "from" THEN _handle_import_from(c[2]) ELSE _handle_import(c[2])

\* the call reached is_first_party
AskedFirstParty(c) ==
    /\ c[2] # <<>>
    /\ is_standard_lib(c[2]) = Ret(FALSE)

Parsed(imp, req, exc, calls) == [imp |-> imp, req |-> req, exc |-> exc, calls |-> calls]

\* parse_imports(file_path): the outcomes over the orders in which the file
\* may list its statements; the first statement whose classification raises
\* ends the parse with that exception
parse_imports(file_path) ==
    LET f == tree[file_path]
        cs == Calls(f.stmts)
        bad == {c \in cs : HandleCall(c).exc # "none"}
    IN
    IF f.status = "absent" THEN {Parsed({}, {}, "FileNotFoundError", {})}
    ELSE IF f.status = "syntaxerr" THEN {Parsed({}, {}, "SyntaxError", {})}
    ELSE IF bad = {}
         THEN {Parsed(UNION {HandleCall(c).imp : c \in cs},
                      UNION {HandleCall(c).req : c \in cs}, "none", cs)}
         ELSE {Parsed({}, {}, HandleCall(r).exc, before \cup {r}) :
                   r \in bad, before \in SUBSET (cs \ bad)}

Asked(calls) == {c[2] : c \in {x \in calls : AskedFirstParty(x)}}

\* ------------------------------------------------------------ source trees
Draw(pool) == {S \in SUBSET pool : Cardinality(S) <= MaxImports}

GraphStmts == {Imp({A}), Imp({B}), From(0, C), Imp({REQ})}
BackStmts == {Imp({A}), From(0, C)}
LeafStmts == {Imp({A}), From(0, REQSUB)}
DeepStmts == {From(0, REQSUB), Imp({GHOSTSUB}), Imp({NS}), From(1, REQ)}
OtherStmts == {Imp({JSON}), Imp({SYS, REQSUB}), Imp({GHOST}), Imp({GHOSTSUB}),
               Imp({NS}), Imp({BOTH}), Imp({ZIPPED}), Imp({NATIVE}),
               From(1, <<>>), From(1, REQ)}

Tree(h1, h2, fa, fb, fc) ==
    [p \in Paths |->
       CASE p = HandlerPath("u1") -> h1
         [] p = HandlerPath("u2") -> h2
         [] p = ModulePath(A) -> fa
         [] p = ModulePath(B) -> fb
         [] p = ModulePath(C) -> fc
         [] OTHER -> Absent]

\* import graphs over a, b and c, where c may be missing or unparseable and
\* the second unit may lack its handler
GraphTrees ==
    {Tree(File("ok", s1), h2, File("ok", sa), File("ok", sb), fc) :
        s1 \in Draw(GraphStmts), sa \in Draw(GraphStmts), sb \in Draw(BackStmts),
        h2 \in {Absent, File("ok", {Imp({B})})},
        fc \in {Absent, Unparseable} \cup {File("ok", sc) : sc \in Draw(LeafStmts)}}

\* the statements of every kind, in the first handler and in module a
StmtTrees ==
    {Tree(File("ok", s1 \cup {Imp({A})}), File("ok", {Imp({B})}),
          File("ok", sa), File("ok", {From(0, C)}), File("ok", {})) :
        s1 \in Draw(OtherStmts), sa \in Draw(DeepStmts)}

\* ------------------------------------------------------ gather_dependencies
NoBundle == [written |-> FALSE, handler |-> FALSE, modules |-> {}, requirements |-> {}]

Init ==
    /\ tree \in GraphTrees \cup StmtTrees
    /\ pending = Entries
    /\ cur = "none"
    /\ pc = "list"
    /\ imports = {}
    /\ requirements = {}
    /\ queue = {}
    /\ dist = [u \in Units |-> NoBundle]
    /\ err = "none"
    /\ visits = [n \in Names |-> 0]
    /\ classified = {}

\* imports |= __imports, without the update
KeepImports(imps, found) == imps
AddImports(imps, found) == imps \cup found

\* queue = __imports instead of queue |= __imports
ReplaceQueue(q, m, found) == found
\* m = queue.pop() ... queue |= __imports
QueueAfter(q, m, found) == (q \ {m}) \cup found

Bump(n) == [visits EXCEPT ![n] = IF @ < MaxVisits THEN @ + 1 ELSE @]

\* a listed entry that is no directory, or has no handler file
SkipEntry(e) ==
    /\ pc = "list"
    /\ e \in pending
    /\ IF IsDir(e) THEN tree[HandlerPath(e)].status = "absent" ELSE TRUE
    /\ pending' = pending \ {e}
    /\ imports' = {}
    /\ requirements' = {}
    /\ UNCHANGED <<tree, cur, pc, queue, dist, err, visits, classified>>

\* the handler file parses: the two sets and the queue are seeded
StartUnit(u) ==
    /\ pc = "list"
    /\ u \in pending
    /\ IsDir(u)
    /\ tree[HandlerPath(u)].status # "absent"
    /\ \E o \in parse_imports(HandlerPath(u)) :
         /\ o.exc = "none"
         /\ imports' = AddImports({}, o.imp)
         /\ requirements' = o.req
         /\ queue' = o.imp
         /\ classified' = classified \cup Asked(o.calls)
    /\ pending' = pending \ {u}
    /\ cur' = u
    /\ pc' = "walk"
    /\ visits' = [n \in Names |-> 0]
    /\ UNCHANGED <<tree, dist, err>>

\* parsing the handler file raises: the exception leaves gather_dependencies
EntryFail(u) ==
    /\ pc = "list"
    /\ u \in pending
    /\ IsDir(u)
    /\ tree[HandlerPath(u)].status # "absent"
    /\ \E o \in parse_imports(HandlerPath(u)) :
         /\ o.exc # "none"
         /\ err' = o.exc
         /\ classified' = classified \cup Asked(o.calls)
    /\ pending' = pending \ {u}
    /\ cur' = u
    /\ pc' = "aborted"
    /\ imports' = {}
    /\ requirements' = {}
    /\ UNCHANGED <<tree, queue, dist, visits>>

\* one turn of the while loop whose parse succeeds
Pop(m) ==
    /\ pc = "walk"
    /\ m \in queue
    /\ \E o \in parse_imports(ModulePath(m)) :
         /\ o.exc = "none"
         /\ imports' = AddImports(imports, o.imp)
         /\ requirements' = requirements \cup o.req
         /\ queue' = QueueAfter(queue, m, o.imp)
         /\ classified' = classified \cup Asked(o.calls)
    /\ visits' = Bump(m)
    /\ UNCHANGED <<tree, pending, cur, pc, dist, err>>

\* one turn of the while loop whose parse raises
PopFail(m) ==
    /\ pc = "walk"
    /\ m \in queue
    /\ \E o \in parse_imports(ModulePath(m)) :
         /\ o.exc # "none"
         /\ err' = o.exc
         /\ classified' = classified \cup Asked(o.calls)
    /\ queue' = queue \ {m}
    /\ visits' = Bump(m)
    /\ pc' = "aborted"
    /\ UNCHANGED <<tree, pending, cur, imports, requirements, dist>>

\* the queue is empty: copy the handler, the modules whose file exists, and
\* write requirements.txt
Distribute ==
    /\ pc = "walk"
    /\ queue = {}
    /\ dist' = [dist EXCEPT ![cur] =
                 [written |-> TRUE, handler |-> TRUE,
                  modules |-> {m \in imports : tree[ModulePath(m)].status # "absent"},
                  requirements |-> requirements]]
    /\ pc' = "list"
    /\ UNCHANGED <<tree, pending, cur, imports, requirements, queue, err, visits, classified>>

\* os.listdir is exhausted
Finish ==
    /\ pc = "list"
    /\ pending = {}
    /\ pc' = "done"
    /\ UNCHANGED <<tree, pending, cur, imports, requirements, queue, dist, err, visits, classified>>

Next ==
    \/ \E e \in Entries : SkipEntry(e)
    \/ \E u \in Units : StartUnit(u)
    \/ \E u \in Units : EntryFail(u)
    \/ \E m \in Names : Pop(m)
    \/ \E m \in Names : PopFail(m)
    \/ Distribute
    \/ Finish

Spec == Init /\ [][Next]_vars
FairSpec == Init /\ [][Next]_vars /\ WF_vars(Next)

\* ------------------------------------------------------ reference notions
\* the first-party names a file's statements yield; none when its parse raises
FirstPartyOf(file_path) ==
    LET o == CHOOSE x \in parse_imports(file_path) : TRUE IN
    IF o.exc = "none" THEN o.imp ELSE {}

RECURSIVE Closure(_)
Closure(S) ==
    LET T == S \cup UNION {FirstPartyOf(ModulePath(m)) : m \in S} IN
    IF T = S THEN S ELSE Closure(T)

\* the first-party modules reachable from the handler of unit u
Reachable(u) == Closure(FirstPartyOf(HandlerPath(u)))

Outcome(imp, req, end) == [imp |-> imp, req |-> req, end |-> end]

\* the while loop run with one fixed pop order
RECURSIVE RefWalk(_, _, _, _)
RefWalk(imp, req, q, fuel) ==
    IF q = {} THEN Outcome(imp, req, "empty")
    ELSE IF fuel = 0 THEN Outcome({}, {}, "running")
    ELSE LET m == CHOOSE x \in q : TRUE
             o == CHOOSE x \in parse_imports(ModulePath(m)) : TRUE
         IN IF o.exc # "none" THEN Outcome({}, {}, "raised")
            ELSE RefWalk(AddImports(imp, o.imp), req \cup o.req,
                         QueueAfter(q, m, o.imp), fuel - 1)

RefResult(u) ==
    LET o == CHOOSE x \in parse_imports(HandlerPath(u)) : TRUE IN
    IF o.exc # "none" THEN Outcome({}, {}, "raised")
    ELSE RefWalk(AddImports({}, o.imp), o.req, o.imp, WalkFuel)

WalkEnded == pc = "walk" /\ queue = {}

\* every file the walk of unit u can reach is present and parses
AllParse(u) ==
    /\ \A o \in parse_imports(HandlerPath(u)) : o.exc = "none"
    /\ \A m \in Reachable(u) : \A o \in parse_imports(ModulePath(m)) : o.exc = "none"

\* ------------------------------------------------------------------ claims

\* C1: when the handler imports a, a imports b and b imports a, and every
\* file parses, the walk of that unit reaches an empty queue.
C1_CycleWalkTerminates ==
    (/\ pc = "walk"
     /\ AllParse(cur)
     /\ A \in FirstPartyOf(HandlerPath(cur))
     /\ B \in FirstPartyOf(ModulePath(A))
     /\ A \in FirstPartyOf(ModulePath(B))) ~> (queue = {})

\* C2: when the walk of a unit ends, ImportSet holds the handler's first-party
\* imports, is closed under the first-party imports of its members, and holds
\* nothing that is not reachable from the handler.
C2_ClosureComplete ==
    WalkEnded =>
        /\ FirstPartyOf(HandlerPath(cur)) \subseteq imports
        /\ \A m \in imports : FirstPartyOf(ModulePath(m)) \subseteq imports
        /\ imports \subseteq Reachable(cur)

\* a walk over the chain handler -> a -> b -> c has ended
C2_Witness ==
    /\ WalkEnded
    /\ FirstPartyOf(HandlerPath(cur)) = {A}
    /\ FirstPartyOf(ModulePath(A)) = {B}
    /\ FirstPartyOf(ModulePath(B)) = {C}
    /\ imports = {A, B, C}

\* C3: whichever element each pop removes, a walk that ends leaves the two
\* sets the walk with a fixed pop order leaves, and a walk that raises is one
\* the fixed pop order does not bring to an end either.
C3_PopOrderIndependent ==
    /\ WalkEnded => Outcome(imports, requirements, "empty") = RefResult(cur)
    /\ pc = "aborted" => RefResult(cur).end # "empty"

\* a walk that had two modules to choose from at its first pop has ended
C3_Witness ==
    /\ WalkEnded
    /\ Cardinality(FirstPartyOf(HandlerPath(cur))) >= 2
    /\ Cardinality(imports) = 3
    /\ requirements # {}

\* C4: ImportSet and RequirementSet share no name, after seeding and after
\* every step of the walk, and neither do the two parts of a written bundle.
C4_Disjoint ==
    /\ imports \cap requirements = {}
    /\ \A u \in Units : dist[u].modules \cap dist[u].requirements = {}

\* a module that lies under the project root and under a package directory
\* has been classified, next to a third-party one
C4_Witness ==
    /\ pc = "walk"
    /\ BOTH \in imports
    /\ requirements # {}

\* C5: when a unit fails, every other unit that has its handler file has
\* been attempted.
C5_FailureIsolated ==
    pc = "aborted" =>
        \A u \in Units \ {cur} :
            tree[HandlerPath(u)].status # "absent" => u \notin pending

\* C6: no classification raises: the run stops only on a file that is
\* missing or does not parse.
C6_ClassificationNeverRaises ==
    err \in {"none", "SyntaxError", "FileNotFoundError"}

\* C7: every name in ImportSet, RequirementSet or the queue is named by an
\* absolute import statement of some file.
C7_RelativeImportsSkipped ==
    \A n \in imports \cup requirements \cup queue :
        \E p \in Paths : \E s \in tree[p].stmts :
            /\ s.level = 0
            /\ n \in (IF s.form = "from" THEN {s.module} ELSE s.names)

\* C8: every name in RequirementSet, and every line of a written manifest,
\* is a top-level package name.
C8_TopLevelRequirements ==
    /\ \A n \in requirements : Len(n) = 1
    /\ \A u \in Units : \A n \in dist[u].requirements : Len(n) = 1

\* C9: is_first_party is true of every namespace package it was asked about
\* that has a search-path root under the project root.
C9_NamespaceFirstParty ==
    \A n \in classified :
        (/\ Env[n].importable
         /\ Env[n].hasPath
         /\ Env[n].file.none
         /\ \E root \in Env[n].roots : root.cwd) => is_first_party(n).ret

\* C10: within the walk of one unit no module's file is parsed twice.
C10_VisitedAtMostOnce ==
    \A n \in Names : visits[n] <= 1

====
